---- MODULE Spec2Model ----
(***************************************************************************)
(* A model of qkay's report index helpers (src/qkay/index.py):             *)
(* define_order, list_individual_reports, shuffle_reports,                 *)
(* anonymize_reports and repeat_reports.                                   *)
(*                                                                         *)
(* Filenames are TLA+ strings; a character is a string of length one, and  *)
(* the regular expressions of the source are computed on the characters.   *)
(***************************************************************************)
EXTENDS Integers, Sequences, FiniteSets, TLC

VARIABLES
    pc,             \* SpecSort, SpecAnon: "start" before the call, "done" once it returned
    op,             \* the last call made: a record naming the function and its arguments
    list_of_files,  \* list_individual_reports: the list as globbed, before the sort
    result,         \* what the last call returned, or the error it raised
    lst,            \* the caller's list object, handed to shuffle_reports / repeat_reports
    rng,            \* state of the process-wide generator of module random
    oracle,         \* the generator's outputs observed so far, per (state, request)
    first_shuffle,  \* for each (seed, list) shuffled so far, what the first call returned
    demo,           \* contents of demo.txt
    calls,          \* number of randomized calls made so far
    budget          \* the run's bounds: calls it may make, length its list may reach

vars ==
    <<pc, op, list_of_files, result, lst, rng, oracle, first_shuffle, demo, calls, budget>>

-----------------------------------------------------------------------------
(* Bounds of the model *)

MaxFiles == 3       \* names in one listing (list_individual_reports)
MaxAnonLen == 10    \* length of the list given to anonymize_reports
MaxCalls == 3       \* Spec: randomized calls in one run
MaxList == 3        \* Spec: length the caller's list may grow to
MaxRepeat == 1      \* Spec: number_of_subjects_to_repeat
MaxRepeatCalls == 2 \* SpecRepeat: calls of repeat_reports in one run
MaxRepeatList == 7  \* SpecRepeat: length the caller's list may grow to

-----------------------------------------------------------------------------
(* Strings and characters *)

Ch(s, i) == SubSeq(s, i, i)

Digits == {"0", "1", "2", "3", "4", "5", "6", "7", "8", "9"}

\* The ASCII word characters in code point order (used for str comparison).
WordOrder == "0123456789ABCDEFGHIJKLMNOPQRSTUVWXYZ_abcdefghijklmnopqrstuvwxyz"

\* \w restricted to ASCII
WordChars == {Ch(WordOrder, i) : i \in 1..Len(WordOrder)}

Ord(c) == CHOOSE i \in 1..Len(WordOrder) : Ch(WordOrder, i) = c

Min(S) == CHOOSE x \in S : \A y \in S : x <= y
Max(S) == CHOOSE x \in S : \A y \in S : x >= y

\* Python's str < str: the first differing code point decides, a proper prefix is less.
StrLess(a, b) ==
    \E n \in 0..Len(a) :
        /\ n <= Len(b)
        /\ SubSeq(a, 1, n) = SubSeq(b, 1, n)
        /\ \/ n = Len(a) /\ n < Len(b)
           \/ n < Len(a) /\ n < Len(b) /\ Ord(Ch(a, n + 1)) < Ord(Ch(b, n + 1))

\* lit occurs in s at position i
MatchAt(lit, s, i) ==
    /\ i >= 1
    /\ i + Len(lit) - 1 <= Len(s)
    /\ SubSeq(s, i, i + Len(lit) - 1) = lit

\* Python's `lit in s`
Contains(lit, s) == \E i \in 1..(Len(s) + 1) : MatchAt(lit, s, i)

\* The lengths m of a group (cls+) such that lit, the group and "_" match at i.
GroupLens(lit, cls, s, i) ==
    {m \in 1..Len(s) :
        /\ MatchAt(lit, s, i)
        /\ i + Len(lit) + m <= Len(s)
        /\ \A j \in 0..(m - 1) : Ch(s, i + Len(lit) + j) \in cls
        /\ Ch(s, i + Len(lit) + m) = "_"}

NoMatch == [matched |-> FALSE]

\* re.search(lit + "(" + cls + "+)_", s): the leftmost match, its group greedy.
ReCapture(lit, cls, s) ==
    LET starts == {i \in 1..Len(s) : GroupLens(lit, cls, s, i) # {}}
    IN  IF starts = {} THEN NoMatch
        ELSE LET i == Min(starts)
                 m == Max(GroupLens(lit, cls, s, i))
             IN  [matched |-> TRUE,
                  group |-> SubSeq(s, i + Len(lit), i + Len(lit) + m - 1)]

\* re.search(head + ".*" + tail, s), or re.search(head, s) when tail is empty.
ReSearch(pattern, s) ==
    \E i \in 1..Len(s) :
        /\ MatchAt(pattern[1], s, i)
        /\ \/ pattern[2] = ""
           \/ \E j \in (i + Len(pattern[1]))..Len(s) : MatchAt(pattern[2], s, j)

DigitVal(c) == CHOOSE d \in 0..9 : Ch("0123456789", d + 1) = c

RECURSIVE DecValue(_)
DecValue(s) ==
    IF s = "" THEN 0
    ELSE DecValue(SubSeq(s, 1, Len(s) - 1)) * 10 + DigitVal(Ch(s, Len(s)))

RECURSIVE StripUnderscores(_)
StripUnderscores(s) ==
    IF s = "" THEN ""
    ELSE IF Ch(s, 1) = "_" THEN StripUnderscores(SubSeq(s, 2, Len(s)))
    ELSE Ch(s, 1) \o StripUnderscores(SubSeq(s, 2, Len(s)))

\* int(s) for a string of word characters: digits, single underscores allowed
\* between digits; anything else raises ValueError.
PyInt(s) ==
    IF /\ s # ""
       /\ \A i \in 1..Len(s) : Ch(s, i) \in Digits \cup {"_"}
       /\ Ch(s, 1) \in Digits
       /\ Ch(s, Len(s)) \in Digits
       /\ ~Contains("__", s)
    THEN [ok |-> TRUE, val |-> DecValue(StripUnderscores(s))]
    ELSE [ok |-> FALSE, err |-> "ValueError"]

\* str(i) for i >= 0
RECURSIVE PyStr(_)
PyStr(i) ==
    IF i < 10 THEN Ch("0123456789", i + 1)
    ELSE PyStr(i \div 10) \o Ch("0123456789", (i % 10) + 1)

SeqsUpTo(S, n) == UNION {[1..m -> S] : m \in 0..n}

-----------------------------------------------------------------------------
(* define_order *)

MODALITY_ORDER ==
    << <<"_T1w", "">>, <<"task-qct", "_bold">>, <<"task-bht", "_bold">>,
       <<"task_rest", "_bold">>, <<"_T2w", "">> >>

\* lines 39-43: index of the first pattern that matches, len(MODALITY_ORDER) if none
\* (Python indices, from 0)
ModalityPriority(file) ==
    LET hits == {i \in 1..Len(MODALITY_ORDER) : ReSearch(MODALITY_ORDER[i], file)}
    IN  IF hits = {} THEN Len(MODALITY_ORDER) ELSE Min(hits) - 1

\* SessionOf with the plain "ses-" rule tried first.
SessionOfNumberedFirst(file) ==
    LET excl_match == ReCapture("ses-excl", Digits, file)
        pilot_match == ReCapture("ses-pilot", Digits, file)
        session_match == ReCapture("ses-", Digits, file)
    IN  IF session_match.matched THEN <<3, DecValue(session_match.group)>>
        ELSE IF excl_match.matched THEN <<1, DecValue(excl_match.group)>>
        ELSE IF pilot_match.matched THEN <<2, DecValue(pilot_match.group)>>
        ELSE <<4, 0>>

\* lines 48-60: the session cascade, <<type priority, session number>>
SessionOf(file) ==
    LET excl_match == ReCapture("ses-excl", Digits, file)
        pilot_match == ReCapture("ses-pilot", Digits, file)
        session_match == ReCapture("ses-", Digits, file)
    IN  IF excl_match.matched THEN <<1, DecValue(excl_match.group)>>
        ELSE IF pilot_match.matched THEN <<2, DecValue(pilot_match.group)>>
        ELSE IF session_match.matched THEN <<3, DecValue(session_match.group)>>
        ELSE <<4, 0>>

\* lines 45-46: run id, 0 without a run segment; int() may raise
RunId(file) ==
    LET run_match == ReCapture("run-", WordChars, file)
    IN  IF run_match.matched THEN PyInt(run_match.group) ELSE [ok |-> TRUE, val |-> 0]

\* define_order falling back to an empty subject id when "sub-" is not found.
define_order_lenient(file) ==
    LET sub_match == ReCapture("sub-", WordChars, file)
    IN  IF ~RunId(file).ok
        THEN [ok |-> FALSE, err |-> "ValueError"]
        ELSE [ok |-> TRUE,
              key |-> <<IF sub_match.matched THEN sub_match.group ELSE "",
                        ModalityPriority(file),
                        SessionOf(file)[1], SessionOf(file)[2], RunId(file).val>>]

define_order(file) ==
    LET sub_match == ReCapture("sub-", WordChars, file)
    IN  IF ~sub_match.matched
        THEN [ok |-> FALSE, err |-> "AttributeError"]    \* None.group(1), line 36
        ELSE IF ~RunId(file).ok
        THEN [ok |-> FALSE, err |-> "ValueError"]        \* int(...), line 46
        ELSE [ok |-> TRUE,
              key |-> <<sub_match.group, ModalityPriority(file),
                        SessionOf(file)[1], SessionOf(file)[2], RunId(file).val>>]

\* TupleLess comparing only the four components the docstring names (run id dropped).
TupleLessNoRun(a, b) ==
    \/ StrLess(a[1], b[1])
    \/ /\ a[1] = b[1]
       /\ \E i \in 2..4 :
            /\ \A j \in 2..(i - 1) : a[j] = b[j]
            /\ a[i] < b[i]

\* Python's tuple <: the first differing component decides (str first, then ints).
TupleLess(a, b) ==
    \/ StrLess(a[1], b[1])
    \/ /\ a[1] = b[1]
       /\ \E i \in 2..5 :
            /\ \A j \in 2..(i - 1) : a[j] = b[j]
            /\ a[i] < b[i]

-----------------------------------------------------------------------------
(* list_individual_reports *)

\* Basenames glob can return for "sub-*.html".
FilePool ==
    {"sub-01_ses-excl01_T1w.html",
     "sub-01_ses-pilot03_T1w.html",
     "sub-01_ses-02_T1w.html",
     "sub-01_ses-1_T1w.html",
     "sub-01_ses-02_task-qct_run-10_bold.html",
     "sub-01_ses-02_task-qct_run-2_bold.html",
     "sub-01_T2w.html",
     "sub-1_task_rest_bold.html",
     "sub-A_ses-02_ses-excl01_T1w.html",
     "sub-01_run-a_T1w.html",
     "sub-01.html"}

Condition1(base) == "/condition1/" \o base
Condition2(base) == "/condition2/" \o base

AllNames ==
    FilePool \cup {Condition1(b) : b \in FilePool} \cup {Condition2(b) : b \in FilePool}

\* The key function applied to each name of a listing (computed once per name).
KeyCache == [f \in AllNames |-> define_order(f)]

KeyOf(file) == KeyCache[file]

RECURSIVE Insert(_, _)
Insert(x, s) ==
    IF s = <<>> THEN <<x>>
    ELSE IF TupleLess(KeyOf(x).key, KeyOf(Head(s)).key) THEN <<x>> \o s
    ELSE <<Head(s)>> \o Insert(x, Tail(s))

\* A stable sort by key: equal keys keep the order they came in.
RECURSIVE StableSort(_)
StableSort(files) ==
    IF files = <<>> THEN <<>>
    ELSE Insert(files[Len(files)], StableSort(SubSeq(files, 1, Len(files) - 1)))

\* list.sort(key=define_order): the keys are computed first, in list order, and the
\* first error leaves the list as it was and propagates.
SortByKey(files) ==
    LET bad == {i \in 1..Len(files) : ~KeyOf(files[i]).ok}
    IN  IF bad # {}
        THEN [ok |-> FALSE, err |-> KeyOf(files[Min(bad)]).err]
        ELSE [ok |-> TRUE, val |-> StableSort(files)]

NoResult == [ok |-> FALSE, err |-> "none"]
NoCall == [fn |-> "none"]

\* the part of the state a single call of a pure function leaves alone
NoRandomRun ==
    /\ rng = [seeded |-> FALSE, seed |-> 0, used |-> <<>>]
    /\ oracle = {}
    /\ first_shuffle = {}
    /\ demo = <<>>
    /\ calls = 0
    /\ budget = [calls |-> 0, list |-> 0]

InitCall ==
    /\ pc = "start"
    /\ op = NoCall
    /\ list_of_files = <<>>
    /\ result = NoResult
    /\ lst = <<>>
    /\ NoRandomRun

DefineOrder(file) ==
    /\ pc = "start"
    /\ pc' = "done"
    /\ op' = [fn |-> "define_order", file |-> file]
    /\ result' = define_order(file)
    /\ UNCHANGED <<list_of_files, lst, rng, oracle, first_shuffle, demo, calls, budget>>

ListIndividualReports(two_folders) ==
    /\ pc = "start"
    /\ \E g1 \in SeqsUpTo(FilePool, MaxFiles) :
       \E g2 \in SeqsUpTo(FilePool, IF two_folders THEN MaxFiles - Len(g1) ELSE 0) :
          LET files == IF two_folders
                       THEN [i \in 1..Len(g1) |-> Condition1(g1[i])]
                            \o [i \in 1..Len(g2) |-> Condition2(g2[i])]
                       ELSE g1
          IN  /\ list_of_files' = files
              /\ result' = SortByKey(files)
    /\ pc' = "done"
    /\ op' = [fn |-> "list_individual_reports", two_folders |-> two_folders]
    /\ UNCHANGED <<lst, rng, oracle, first_shuffle, demo, calls, budget>>

NextSort ==
    \/ \E file \in AllNames : DefineOrder(file)
    \/ \E two_folders \in BOOLEAN : ListIndividualReports(two_folders)

SpecSort == InitCall /\ [][NextSort]_vars

-----------------------------------------------------------------------------
(* anonymize_reports *)

AnonPool == {"sub-01_T1w.html", "sub-02_T1w.html"}
Datasets == {"DS1", "X_1"}

\* labels numbered from 0 (range(len(shuffled_list)))
AnonymizedListZeroBased(shuffled_list, dataset_name) ==
    [j \in 1..Len(shuffled_list) |-> "A-" \o dataset_name \o "_" \o PyStr(j - 1)]

\* ["A-" + dataset_name + "_" + str(i) for i in range(1, len(shuffled_list) + 1)]
AnonymizedList(shuffled_list, dataset_name) ==
    [j \in 1..Len(shuffled_list) |-> "A-" \o dataset_name \o "_" \o PyStr(j)]

InitAnon ==
    /\ pc = "start"
    /\ op = NoCall
    /\ list_of_files = <<>>
    /\ result = NoResult
    /\ lst \in SeqsUpTo(AnonPool, MaxAnonLen)
    /\ NoRandomRun

AnonymizeReports(dataset_name) ==
    /\ pc = "start"
    /\ pc' = "done"
    /\ op' = [fn |-> "anonymize_reports", arg |-> lst, dataset_name |-> dataset_name]
    /\ result' = [ok |-> TRUE, val |-> AnonymizedList(lst, dataset_name)]
    /\ UNCHANGED <<list_of_files, lst, rng, oracle, first_shuffle, demo, calls, budget>>

NextAnon == \E dataset_name \in Datasets : AnonymizeReports(dataset_name)

SpecAnon == InitAnon /\ [][NextAnon]_vars

-----------------------------------------------------------------------------
(* The process-wide generator of module random *)

\* The generator is a deterministic automaton whose outputs are not computed here: the
\* outcome of a request (a shuffle of n items, a sample of k out of n) is a function of
\* the generator's state, unknown until first observed and the same ever after.  The
\* state is the seed last given and the requests served since.

day == 220830
time == 543417

Unseeded == [seeded |-> FALSE, seed |-> 0, used |-> <<>>]

\* random.seed(a) for an int a
Seeded(a) == [seeded |-> TRUE, seed |-> a, used |-> <<>>]

\* a request that draws nothing leaves the state as it is
Draws(request) ==
    IF request[1] = "shuffle" THEN request[2] >= 2 ELSE request[3] >= 1

After(state, request) ==
    IF Draws(request) THEN [state EXCEPT !.used = Append(@, request)] ELSE state

\* the sequences of k distinct positions of a list of n items
RECURSIVE Injections(_, _)
Injections(k, n) ==
    IF k = 0 THEN {<<>>}
    ELSE UNION {{Append(p, x) : x \in (1..n) \ {p[i] : i \in 1..(k - 1)}} :
                    p \in Injections(k - 1, n)}

\* What a request can return: for a shuffle of n items the order in which the items
\* come out, for a sample the k distinct positions selected.
AllOutcomes(request) ==
    IF request[1] = "shuffle" THEN Injections(request[2], request[2])
    ELSE Injections(request[3], request[2])

Outcomes(known, state, request) ==
    LET seen == {e \in known : e[1] = state /\ e[2] = request}
    IN  IF seen # {} THEN {e[3] : e \in seen} ELSE AllOutcomes(request)

-----------------------------------------------------------------------------
(* shuffle_reports and repeat_reports *)

\* A two-folder listing as list_individual_reports returns it.
Listing ==
    <<"/condition1/sub-01_T1w.html", "/condition1/sub-02_T1w.html",
      "/condition2/sub-01_T1w.html">>

RECURSIVE Pick(_, _, _)
Pick(s, I, i) ==
    IF i > Len(s) THEN <<>>
    ELSE (IF i \in I THEN <<s[i]>> ELSE <<>>) \o Pick(s, I, i + 1)

\* the lists of entries of the listing, in the listing's order
SubListings == {Pick(Listing, I, 1) : I \in SUBSET (1..Len(Listing))}

\* str.replace(old, new): every occurrence of old, left to right
RECURSIVE Replace(_, _, _)
Replace(s, old, new) ==
    IF s = "" THEN ""
    ELSE IF MatchAt(old, s, 1)
    THEN new \o Replace(SubSeq(s, Len(old) + 1, Len(s)), old, new)
    ELSE Ch(s, 1) \o Replace(SubSeq(s, 2, Len(s)), old, new)

Init ==
    /\ pc = "start"
    /\ op = NoCall
    /\ list_of_files = <<>>
    /\ result = NoResult
    /\ lst \in SubListings
    /\ rng = Unseeded
    /\ oracle = {}
    /\ first_shuffle = {}
    /\ demo = <<>>
    /\ calls = 0
    /\ budget = [calls |-> MaxCalls, list |-> MaxList]

Seeds == {1, day + time}

\* shuffle_reports drawing from the generator as it finds it (no random.seed)
ShuffleStateNoReseed(state, random_seed) == state

\* line 112: the generator state the shuffle draws from
ShuffleState(state, random_seed) == Seeded(random_seed)

\* shuffle_reports shuffling the caller's list itself
ShuffleInPlace == FALSE

\* line 113: shuffled_list is copy.deepcopy(list_of_files), a new list object
ShuffleWorksOnCopy == TRUE

ShuffleReports(random_seed) ==
    /\ calls < budget.calls
    /\ LET state == ShuffleState(rng, random_seed)
           request == <<"shuffle", Len(lst)>>
       IN  \E p \in Outcomes(oracle, state, request) :
             LET shuffled_list == [i \in 1..Len(lst) |-> lst[p[i]]]
             IN  /\ rng' = After(state, request)
                 /\ oracle' = oracle \cup {<<state, request, p>>}
                 /\ result' = [ok |-> TRUE, val |-> shuffled_list,
                               same_object |-> ~ShuffleWorksOnCopy]
                 /\ lst' = IF ShuffleWorksOnCopy THEN lst ELSE shuffled_list
                 /\ first_shuffle' =
                        IF \E c \in first_shuffle : c.seed = random_seed /\ c.arg = lst
                        THEN first_shuffle
                        ELSE first_shuffle \cup {[seed |-> random_seed, arg |-> lst,
                                                  val |-> shuffled_list, at |-> calls]}
    /\ op' = [fn |-> "shuffle_reports", arg |-> lst, random_seed |-> random_seed]
    /\ calls' = calls + 1
    /\ UNCHANGED <<pc, list_of_files, demo, budget>>

\* random.sample without the size check: a sample as large as the population allows
SampleSizeClamped(n, k) == IF k <= n THEN k ELSE n

\* random.sample(population, k) with n = len(population): the size of the sample, or
\* -1 for the ValueError "Sample larger than population or is negative"
SampleSize(n, k) == IF 0 <= k /\ k <= n THEN k ELSE -1

\* random.choices: positions drawn with replacement
PositionsWithReplacement(known, state, n, k) ==
    [1..k -> 1..n]

\* lines 149-151, 158: the positions random.sample selects, k distinct ones out of n
SamplePositions(known, state, n, k) ==
    Outcomes(known, state, <<"sample", n, k>>)

\* the condition-2 names left as the condition-1 names
SubsetCondition2Unreplaced(subset_rep_condition1) == subset_rep_condition1

\* lines 152-154
SubsetCondition2(subset_rep_condition1) ==
    [i \in 1..Len(subset_rep_condition1) |->
        Replace(subset_rep_condition1[i], "condition1", "condition2")]

\* repeat_reports extending a copy of the list
ExtendCopy == FALSE

\* lines 160-161: original_list.extend(subset_rep); return original_list
ExtendInPlace == TRUE

RepeatReports(number_of_subjects_to_repeat, two_folders) ==
    /\ calls < budget.calls
    /\ LET state == Seeded(day + time)
           list_condition1 == SelectSeq(lst, LAMBDA f : Contains("condition1", f))
           population == IF two_folders THEN list_condition1 ELSE lst
           k == SampleSize(Len(population), number_of_subjects_to_repeat)
           request == <<"sample", Len(population), k>>
       IN  /\ demo' = IF two_folders THEN <<lst, list_condition1>> ELSE demo
           /\ IF k < 0
              THEN /\ result' = [ok |-> FALSE, err |-> "ValueError"]
                   /\ rng' = state
                   /\ UNCHANGED <<lst, oracle>>
              ELSE /\ Len(lst) + (IF two_folders THEN 2 * k ELSE k) <= budget.list
                   /\ \E p \in SamplePositions(oracle, state, Len(population), k) :
                     LET sample == [i \in 1..k |-> population[p[i]]]
                         subset_rep == IF two_folders
                                       THEN sample \o SubsetCondition2(sample)
                                       ELSE sample
                     IN  /\ rng' = After(state, request)
                         /\ oracle' = oracle \cup {<<state, request, p>>}
                         /\ lst' = IF ExtendInPlace THEN lst \o subset_rep ELSE lst
                         /\ result' = [ok |-> TRUE, val |-> lst \o subset_rep,
                                       same_object |-> ExtendInPlace]
    /\ op' = [fn |-> "repeat_reports", arg |-> lst,
              k |-> number_of_subjects_to_repeat, two_folders |-> two_folders]
    /\ calls' = calls + 1
    /\ UNCHANGED <<pc, list_of_files, first_shuffle, budget>>

Next ==
    \/ \E random_seed \in Seeds : ShuffleReports(random_seed)
    \/ \E k \in 0..MaxRepeat : \E two_folders \in BOOLEAN : RepeatReports(k, two_folders)

\* Runs of shuffle_reports and repeat_reports on one list, in any order.
Spec == Init /\ [][Next]_vars

\* the listings, and the orders a shuffle can leave them in
ShuffledListings ==
    {s \in SeqsUpTo({Listing[i] : i \in 1..Len(Listing)}, Len(Listing)) :
        \A i \in 1..Len(s) : \A j \in 1..Len(s) : i # j => s[i] # s[j]}

InitRepeat ==
    /\ pc = "start"
    /\ op = NoCall
    /\ list_of_files = <<>>
    /\ result = NoResult
    /\ lst \in ShuffledListings
    /\ rng = Unseeded
    /\ oracle = {}
    /\ first_shuffle = {}
    /\ demo = <<>>
    /\ calls = 0
    /\ budget = [calls |-> MaxRepeatCalls, list |-> MaxRepeatList]

NextRepeat ==
    \/ \E k \in 0..(Len(lst) + 1) : RepeatReports(k, FALSE)
    \/ \E k \in 0..(Len(lst) + 1) : RepeatReports(k, TRUE)

\* Runs of repeat_reports alone, with every size of sample up to one too many.
SpecRepeat == InitRepeat /\ [][NextRepeat]_vars

-----------------------------------------------------------------------------
(* Claims on define_order and the sort of list_individual_reports (SpecSort) *)

Count(s, x) == Cardinality({i \in DOMAIN s : s[i] = x})

IsPermutation(a, b) ==
    /\ Len(a) = Len(b)
    /\ \A i \in DOMAIN a : Count(a, a[i]) = Count(b, a[i])

\* the name holds a segment sub-<id>_
SubjectSegmentIn(file) ==
    \E i \in 1..Len(file) : \E m \in 1..Len(file) :
        /\ MatchAt("sub-", file, i)
        /\ i + 4 + m <= Len(file)
        /\ \A j \in 0..(m - 1) : Ch(file, i + 4 + j) \in WordChars
        /\ Ch(file, i + 4 + m) = "_"

SubjectSegmentTable == [f \in AllNames |-> SubjectSegmentIn(f)]
HasSubjectSegment(file) == SubjectSegmentTable[file]

\* the run-(\w+)_ capture of the name, when there is one, is an integer literal
IntegerRunTable == [f \in AllNames |-> RunId(f).ok]
HasIntegerRun(file) == IntegerRunTable[file]

\* the name holds a segment <lit><digits>_
HasDigitSegment(lit, file) ==
    \E i \in 1..Len(file) : GroupLens(lit, Digits, file, i) # {}

\* The order the claim describes, on two keys: a comes no later than b.
ClaimedOrder(a, b) ==
    \/ StrLess(a[1], b[1])
    \/ a[1] = b[1] /\ a[2] < b[2]
    \/ a[1] = b[1] /\ a[2] = b[2] /\ a[3] < b[3]
    \/ a[1] = b[1] /\ a[2] = b[2] /\ a[3] = b[3] /\ a[4] < b[4]
    \/ a[1] = b[1] /\ a[2] = b[2] /\ a[3] = b[3] /\ a[4] = b[4] /\ a[5] <= b[5]

SortedAsClaimed(files) ==
    \A i \in DOMAIN files : \A j \in DOMAIN files :
        i < j => ClaimedOrder(KeyOf(files[i]).key, KeyOf(files[j]).key)

ExampleInput ==
    <<"sub-01_ses-02_T1w.html", "sub-01_ses-excl01_T1w.html", "sub-01_ses-pilot03_T1w.html">>
ExampleOutput ==
    <<"sub-01_ses-excl01_T1w.html", "sub-01_ses-pilot03_T1w.html", "sub-01_ses-02_T1w.html">>

SortReturnsOrdered ==
    /\ result.ok
    /\ IsPermutation(result.val, list_of_files)
    /\ SortedAsClaimed(result.val)
    /\ list_of_files = ExampleInput => result.val = ExampleOutput

C9_MalformedNameRaises ==
    /\ (op.fn = "define_order" /\ ~HasSubjectSegment(op.file))
           => result = [ok |-> FALSE, err |-> "AttributeError"]
    /\ (/\ op.fn = "list_individual_reports"
        /\ \E i \in DOMAIN list_of_files : ~HasSubjectSegment(list_of_files[i]))
           => ~result.ok

\* a listing of three names, the last one without a subject segment, raised
C9_Witness ==
    /\ op.fn = "list_individual_reports"
    /\ Len(list_of_files) = 3
    /\ HasSubjectSegment(list_of_files[1])
    /\ HasSubjectSegment(list_of_files[2])
    /\ ~HasSubjectSegment(list_of_files[3])
    /\ result = [ok |-> FALSE, err |-> "AttributeError"]

-----------------------------------------------------------------------------
(* Claim on anonymize_reports (SpecAnon) *)

\* C5: anonymize_reports returns, for a list of length N and dataset name D, the N
\* labels "A-" + D + "_" + i, i = 1..N in decimal; they are pairwise distinct and the
\* list passed in is left as it was.
C5_AnonymizedLabels ==
    op.fn = "anonymize_reports" =>
        LET N == Len(op.arg)
            D == op.dataset_name
        IN  /\ result.ok
            /\ Len(result.val) = N
            /\ \A i \in 1..N : result.val[i] = ("A-" \o D) \o ("_" \o PyStr(i))
            /\ \A i \in 1..N : \A j \in 1..N : i # j => result.val[i] # result.val[j]
            /\ (N >= 2 /\ D = "DS1") => (result.val[1] = "A-DS1_1" /\ result.val[2] = "A-DS1_2")
            /\ (N >= 10 /\ D = "DS1") => result.val[10] = "A-DS1_10"
            /\ lst = op.arg

\* ten reports of two different names were given ten labels
C5_Witness ==
    /\ op.fn = "anonymize_reports"
    /\ Len(op.arg) = 10
    /\ op.arg[1] # op.arg[2]
    /\ Len(result.val) = 10
    /\ result.val[10] = "A-DS1_10"
-----------------------------------------------------------------------------
(* Claims on shuffle_reports (Spec) *)

\* C3: a call of shuffle_reports returns what the first call with the same seed and an
\* equal list returned, whatever randomized calls were made before it or in between.
C3_ShuffleDeterministic ==
    op.fn = "shuffle_reports" =>
        \A c \in first_shuffle :
            (c.seed = op.random_seed /\ c.arg = op.arg) => result.val = c.val

\* the third call of a run repeats the first one, a list of three put in another
\* order, after a call that drew from the generator under another seed
C3_Witness ==
    /\ op.fn = "shuffle_reports"
    /\ calls = 3
    /\ Len(op.arg) = 3
    /\ result.val # op.arg
    /\ \E c \in first_shuffle :
          /\ c.at = 0
          /\ c.seed = op.random_seed
          /\ c.arg = op.arg
          /\ c.val = result.val
    /\ \E e \in oracle : e[1].seed # op.random_seed

\* C4: shuffle_reports leaves the caller's list as it was and returns another list
\* object, a permutation of the list given.
C4_ShuffleCopies ==
    op.fn = "shuffle_reports" =>
        /\ result.ok
        /\ lst = op.arg
        /\ ~result.same_object
        /\ IsPermutation(result.val, op.arg)

\* a list of three came back in another order and the caller's list kept its own
C4_Witness ==
    /\ op.fn = "shuffle_reports"
    /\ Len(op.arg) = 3
    /\ result.val # op.arg
    /\ lst = op.arg
    /\ lst = Listing

-----------------------------------------------------------------------------
(* Claims on repeat_reports (SpecRepeat) *)

\* the number of entries of the list that contain "condition1"
Condition1Count(list) ==
    Cardinality({i \in DOMAIN list : Contains("condition1", list[i])})

Appended(list, n) == SubSeq(list, n + 1, Len(list))

\* C6: single-folder repeat_reports(lst, k) with 0 <= k <= len(lst) returns len(lst)+k
\* entries: lst as it was before the call, then k entries of lst taken from k distinct
\* positions.
C6_SingleFolderRepeat ==
    (op.fn = "repeat_reports" /\ ~op.two_folders /\ 0 <= op.k /\ op.k <= Len(op.arg)) =>
        LET n == Len(op.arg)
        IN  /\ result.ok
            /\ Len(result.val) = n + op.k
            /\ SubSeq(result.val, 1, n) = op.arg
            /\ \E p \in [1..op.k -> 1..n] :
                  /\ \A i \in 1..op.k : \A j \in 1..op.k : i # j => p[i] # p[j]
                  /\ \A i \in 1..op.k : result.val[n + i] = op.arg[p[i]]

\* two of three different reports were repeated
C6_Witness ==
    /\ op.fn = "repeat_reports"
    /\ ~op.two_folders
    /\ op.k = 2
    /\ Len(op.arg) = 3
    /\ op.arg[1] # op.arg[2] /\ op.arg[2] # op.arg[3] /\ op.arg[1] # op.arg[3]
    /\ result.ok
    /\ Len(result.val) = 5
    /\ result.val[4] # result.val[5]

\* C7: two-folder repeat_reports(lst, k), k no larger than the number of entries that
\* contain "condition1", returns len(lst)+2k entries: lst, then k entries of lst that
\* contain "condition1", then the same k entries, in the same order, with "condition1"
\* replaced by "condition2".
C7_TwoFolderRepeat ==
    (op.fn = "repeat_reports" /\ op.two_folders /\ op.k <= Condition1Count(op.arg)) =>
        LET n == Len(op.arg)
            k == op.k
        IN  /\ result.ok
            /\ Len(result.val) = n + 2 * k
            /\ SubSeq(result.val, 1, n) = op.arg
            /\ \A i \in 1..k :
                  /\ \E j \in 1..n : op.arg[j] = result.val[n + i]
                  /\ Contains("condition1", result.val[n + i])
                  /\ result.val[n + k + i]
                        = Replace(result.val[n + i], "condition1", "condition2")
                  /\ result.val[n + i] = "/condition1/sub-01_T1w.html"
                        => result.val[n + k + i] = "/condition2/sub-01_T1w.html"
                  /\ result.val[n + i] = "/condition1/sub-02_T1w.html"
                        => result.val[n + k + i] = "/condition2/sub-02_T1w.html"

\* both condition-1 reports of the listing were repeated, sub-02 first
C7_Witness ==
    /\ op.fn = "repeat_reports"
    /\ op.two_folders
    /\ op.k = 2
    /\ Len(op.arg) = 3
    /\ result.ok
    /\ Appended(result.val, 3) =
         <<"/condition1/sub-02_T1w.html", "/condition1/sub-01_T1w.html",
           "/condition2/sub-02_T1w.html", "/condition2/sub-01_T1w.html">>

\* C8: repeat_reports raises the ValueError of random.sample, and returns no list, when
\* k exceeds len(lst) in single-folder mode and when k exceeds the number of entries
\* that contain "condition1" in two-folder mode.
C8_SampleTooLarge ==
    (/\ op.fn = "repeat_reports"
     /\ \/ ~op.two_folders /\ op.k > Len(op.arg)
        \/ op.two_folders /\ op.k > Condition1Count(op.arg))
    => result = [ok |-> FALSE, err |-> "ValueError"]

\* two repeats were asked of a two-folder list of three with one condition-1 entry
C8_Witness ==
    /\ op.fn = "repeat_reports"
    /\ op.two_folders
    /\ op.k = 2
    /\ Len(op.arg) = 3
    /\ Condition1Count(op.arg) = 1
    /\ result = [ok |-> FALSE, err |-> "ValueError"]

\* C10 as stated: repeat_reports changes the caller's list if and only if the call
\* succeeds; on success the list returned is the caller's list, extended; on failure
\* the caller's list is as it was.
C10_AsStated ==
    op.fn = "repeat_reports" =>
        /\ (lst # op.arg) <=> result.ok
        /\ result.ok => (result.same_object /\ lst = result.val)
        /\ ~result.ok => lst = op.arg

\* C10 amended: repeat_reports changes the caller's list if and only if the call
\* succeeds with at least one subject to repeat (a successful call with k = 0 appends
\* nothing); on success the list returned is the caller's list, the list before the
\* call extended in place; on failure the caller's list is as it was.
C10_RepeatExtendsInPlace ==
    op.fn = "repeat_reports" =>
        /\ (lst # op.arg) <=> (result.ok /\ op.k >= 1)
        /\ result.ok =>
              /\ result.same_object
              /\ lst = result.val
              /\ Len(lst) >= Len(op.arg)
              /\ SubSeq(lst, 1, Len(op.arg)) = op.arg
        /\ ~result.ok => lst = op.arg

\* the second successful call of a run sampled from a list that already held the
\* first call's repeat, and extended it again
C10_Witness ==
    /\ op.fn = "repeat_reports"
    /\ calls = 2
    /\ result.ok
    /\ op.k >= 1
    /\ \E i \in DOMAIN op.arg : \E j \in DOMAIN op.arg : i # j /\ op.arg[i] = op.arg[j]
    /\ Len(lst) > Len(op.arg)
    /\ lst = result.val

====
